---------------------------- MODULE Spec2Model ----------------------------
(***************************************************************************)
(* Model of auto_routes.crud_router: the CRUD router of one SQLModel       *)
(* entity type, the login router of the same type, the two process-wide    *)
(* diskcache stores (cache, sessions_cache) and the asyncio.Semaphore each *)
(* router creates.                                                         *)
(*                                                                         *)
(* Scheduling.  Every handler is an `async def` run on one asyncio event   *)
(* loop.  The only await of a handler is `async with semaphore`; Session,  *)
(* cache and sessions_cache calls are synchronous.  A handler therefore    *)
(* runs from its first statement to its return without handing the loop to *)
(* another handler, unless Semaphore.acquire finds the semaphore locked.   *)
(* `running` is the handler the loop is executing; no other handler takes  *)
(* a step while it is not idle.  Expiry of cache and session entries is    *)
(* the passage of time and can happen between any two steps.               *)
(***************************************************************************)
EXTENDS Integers, Sequences, FiniteSets, TLC

\* ------------------------------------------------------------------ bounds
\* Record ids the backing store can hold: 1..MaxId.
MaxId == 2
\* max_concurrent of both routers.
Capacity == 2
\* Longest list given to a bulk operation.
MaxBatch == 2
\* Number of tokens secrets.token_hex is asked for.
MaxTokens == 2
\* Requests that can be queued behind the running handler.
MaxPending == 3

Ids == 1..MaxId
Emails == {"a@x.com", "b@x.com"}
Names == {"ann"}
\* (skip, limit) windows asked of read_items.
Windows == {<<0, 1>>, <<1, 1>>}

\* A row of the model's table / a model instance.
Entity == [id : Ids, email : Emails, name : Names]

\* An optional value: <<>> is "unset" / None, <<v>> is v.
Opt(S) == {<<>>} \cup {<<v>> : v \in S}

\* The body of PATCH /{item_id}: the fields the client set (exclude_unset).
Partial == [id : Opt(Ids), email : Opt(Emails), name : Opt(Names)]
NoPartial == [id |-> <<>>, email |-> <<>>, name |-> <<>>]

\* Non-empty lists of at most MaxBatch elements of S.
Lists(S) == UNION {[1..n -> S] : n \in 1..MaxBatch}

\* The login router's login_fields.
login_fields == {"email"}

\* The two routers built by crud_router, each with its own semaphore.
Gates == {"crud", "login"}

CrudOps == {"create_item", "create_items", "read_items", "count_items", "read_item",
            "update_item", "update_items", "delete_item", "delete_items"}
BulkOps == {"create_items", "update_items", "delete_items"}
LoginOps == {"login_route", "logout_route"}

\* The router (and so the semaphore) an operation belongs to.
GateOf(op) == IF op \in LoginOps THEN "login" ELSE "crud"

\* An Authorization header: `bearer` copies of "Bearer " followed by a token.
\* Token 0 is a string that was never issued.
Headers(issued) == [bearer : 0..1, tok : 0..issued]
NoHdr == [bearer |-> 0, tok |-> 0]

VARIABLES
    store,      \* the model's table: id -> row
    cache,      \* diskcache Cache("./cache"): key -> serialized value
    sessions,   \* diskcache Cache("./sessions_cache"): token -> login-field dict
    minted,     \* number of tokens secrets.token_hex has returned
    sem,        \* per router, Semaphore._value
    waiters,    \* per router, Semaphore._waiters (suspended handlers, in order)
    ready,      \* woken handlers the loop has not resumed yet
    running,    \* the handler the event loop is executing
    pending,    \* requests accepted by the server whose handler has not started
    auth,       \* the CRUD router's auth parameter
    deleted,    \* history: ids delete_item removed and no create has produced since
    broken      \* the calls of diskcache's Cache("./cache") that raise at present

vars == <<store, cache, sessions, minted, sem, waiters, ready, running, pending, auth, deleted, broken>>

\* ------------------------------------------------------------ cache keys
\* f"{model_name}_{id}", f"{model_name}_all_{skip}_{limit}", f"{model_name}_all",
\* f"{model_name}_count"
KeyItem(i) == <<"item", i>>
KeyPage(skip, limit) == <<"all", skip, limit>>
KeyAll == <<"all">>
KeyCount == <<"count">>

\* model_dump(): the field dict of a row.
model_dump(e) == [id |-> e.id, email |-> e.email, name |-> e.name]

RECURSIVE dump_list(_)
dump_list(items) ==
    IF items = <<>> THEN <<>> ELSE <<model_dump(Head(items))>> \o dump_list(Tail(items))

\* _set_cache of one row, of a list of rows, of a scalar.
\* Each helper wraps its cache call in try/except Exception and logs a warning:
\* a call that raises leaves the cache as it is, and a get that raises is None.
_set_cache(c, key, serialized) ==
    IF "set" \in broken THEN c
    ELSE [k \in DOMAIN c \cup {key} |-> IF k = key THEN serialized ELSE c[k]]

\* _get_cache: <<>> for None (a miss), <<v>> for a hit.
\* Variant of _get_cache for which a cached 0 or a cached empty list is no hit
\* (`if cached:` in place of `is not None`).
_get_cache_truthy(c, key) ==
    IF "get" \in broken THEN <<>>
    ELSE IF key \notin DOMAIN c THEN <<>>
    ELSE IF key = KeyCount /\ c[key] = 0 THEN <<>>
    ELSE IF key[1] = "all" /\ c[key] = <<>> THEN <<>>
    ELSE <<c[key]>>

_get_cache(c, key) ==
    IF "get" \in broken THEN <<>>
    ELSE IF key \in DOMAIN c THEN <<c[key]>> ELSE <<>>

_delete_cache(c, key) ==
    IF "delete" \in broken THEN c ELSE [k \in DOMAIN c \ {key} |-> c[k]]

\* _invalidate_all_cache that forgets the count key.
_invalidate_all_cache_pages_only(c) == _delete_cache(c, KeyAll)

_invalidate_all_cache(c) == _delete_cache(_delete_cache(c, KeyAll), KeyCount)

\* ------------------------------------------------------------ the store
\* The ids of S in ascending order: the order select(model) returns rows in.
RECURSIVE Ascending(_)
Ascending(S) ==
    IF S = {} THEN <<>>
    ELSE LET m == CHOOSE x \in S : \A y \in S : x <= y
         IN <<m>> \o Ascending(S \ {m})

\* select(model): all rows.
select_all(st) == LET ids == Ascending(DOMAIN st) IN [k \in 1..Len(ids) |-> st[ids[k]]]

\* select(model).offset(skip).limit(limit)
select_page(st, skip, limit) ==
    LET rows == select_all(st)
        last == IF skip + limit < Len(rows) THEN skip + limit ELSE Len(rows)
    IN SubSeq(rows, skip + 1, last)

\* select(func.count()).select_from(model)
select_count(st) == Cardinality(DOMAIN st)

\* session.add + commit of one new row.
insert(st, e) == [k \in DOMAIN st \cup {e.id} |-> IF k = e.id THEN e ELSE st[k]]

\* session.delete + commit of row i.
remove(st, i) == [k \in DOMAIN st \ {i} |-> st[k]]

\* ------------------------------------------------------------ handlers
\* What the client sent that the handler's outcome is compared with.
NoReq == [id |-> 0, ids |-> <<>>, skip |-> 0, limit |-> 0, partial |-> NoPartial,
          email |-> <<>>, shape |-> <<>>]

\* The list of a bulk request as the checks before the gate see it: per entry,
\* 1 when it has an "id" and 0 when it has none.  The entries of POST /bulk are
\* rows and those of DELETE /bulk are ints: all 1.
Shapes == UNION {[1..n -> {0, 1}] : n \in 0..MaxBatch}

ShapesOf(op) ==
    IF op = "update_items" THEN Shapes
    ELSE IF op \in {"create_items", "delete_items"}
    THEN {sh \in Shapes : \A k \in DOMAIN sh : sh[k] = 1}
    ELSE {<<>>}

\* The response: status code, rows of the body, {"count": n}, token and user.
NoResp == [status |-> 0, items |-> <<>>, count |-> 0, tok |-> 0, user |-> <<>>]

Idle == [op |-> "idle", pc |-> "idle", hdr |-> NoHdr, req |-> NoReq, resp |-> NoResp]

Status(code) == [NoResp EXCEPT !.status = code]

\* verify_token: <<>> when it raises 401, <<user_data>> when it returns.
\* authorization.replace("Bearer ", "") leaves the token of the header.
\* Variant of verify_token that checks the prefix and not the session store.
verify_token_prefix_only(hdr, sess) ==
    IF hdr.bearer = 0 THEN <<>> ELSE <<[email |-> "a@x.com"]>>

\* Variant of verify_token that answers with the login fields of the row the
\* session was opened for as the table holds them now.
verify_token_live(hdr, sess) ==
    IF hdr.bearer = 0 \/ hdr.tok \notin DOMAIN sess THEN <<>>
    ELSE LET hits == {i \in DOMAIN store : store[i].email = sess[hdr.tok].email} IN
         IF hits = {} THEN <<>> ELSE <<sess[hdr.tok]>>

verify_token(hdr, sess) ==
    IF hdr.bearer = 0 THEN <<>>
    ELSE IF hdr.tok \in DOMAIN sess THEN <<sess[hdr.tok]>> ELSE <<>>

\* Semaphore.locked()
locked(g) == sem[g] = 0 \/ waiters[g] # <<>>

\* Permits of router g's semaphore that handlers hold.
Held(g) == Capacity - sem[g]

\* The tables the database can hold when the application starts.
Tables == UNION {{st \in [S -> Entity] : \A i \in S : st[i].id = i} : S \in SUBSET Ids}

Init ==
    /\ store \in Tables
    /\ cache = <<>>
    /\ sessions = <<>>
    /\ minted = 0
    /\ sem = [g \in Gates |-> Capacity]
    /\ waiters = [g \in Gates |-> <<>>]
    /\ ready = <<>>
    /\ running = Idle
    /\ pending = 0
    /\ auth \in BOOLEAN
    /\ deleted = {}
    /\ broken = {}

\* The handler of a request up to its `async with semaphore`: the auth
\* dependency, then the checks a handler makes before it enters the gate.
\* bad_request is those checks: `if not items` of the three bulk handlers and
\* `any("id" not in data for data in items_data)` of update_items.
bad_request_empty_only(op, shape) == op \in BulkOps /\ shape = <<>>

bad_request(op, shape) ==
    /\ op \in BulkOps
    /\ \/ shape = <<>>
       \/ op = "update_items" /\ \E k \in DOMAIN shape : shape[k] = 0

enter(op, hdr, shape) ==
    LET new == [Idle EXCEPT !.op = op, !.hdr = hdr, !.req.shape = shape] IN
    IF op = "logout_route"
    THEN IF hdr.bearer = 0
         THEN [new EXCEPT !.pc = "done", !.resp = Status(401)]
         ELSE [new EXCEPT !.pc = "body"]
    ELSE IF op \in CrudOps /\ auth /\ verify_token(hdr, sessions) = <<>>
    THEN [new EXCEPT !.pc = "done", !.resp = Status(401)]
    ELSE IF bad_request(op, shape)
    THEN [new EXCEPT !.pc = "done", !.resp = Status(400)]
    ELSE [new EXCEPT !.pc = "gate"]

\* The headers a request to `op` can carry: Authorization is a parameter of the
\* CRUD handlers only when auth is set, and of logout always.  A client knows
\* the tokens minted so far, not the ones to come.
HeadersOf(op) ==
    IF op = "logout_route" \/ (op \in CrudOps /\ auth) THEN Headers(minted) ELSE {NoHdr}

\* The event loop runs the next task: a handler woken by Semaphore.release if
\* there is one, else the handler of a request.
Begin(ops) ==
    /\ running = Idle
    /\ IF ready # <<>>
       THEN /\ running' = [Head(ready) EXCEPT !.pc = "body"]
            /\ ready' = Tail(ready)
       ELSE /\ \E op \in ops : \E hdr \in HeadersOf(op) : \E shape \in ShapesOf(op) :
                  /\ (op = "login_route" => minted < MaxTokens)
                  /\ running' = enter(op, hdr, shape)
            /\ ready' = ready

\* A request arrives while the loop is free and its handler starts at once.
Arrive(ops) ==
    /\ pending = 0
    /\ Begin(ops)
    /\ UNCHANGED <<store, cache, sessions, minted, sem, waiters, pending, auth, deleted, broken>>

\* The server accepts a request and creates its handler task; the server runs on
\* the same loop, so it does so between handlers.
Issue ==
    /\ running = Idle
    /\ pending < MaxPending
    /\ pending' = pending + 1
    /\ UNCHANGED <<store, cache, sessions, minted, sem, waiters, ready, running, auth, deleted, broken>>

\* The loop starts the handler of a queued request.
Start(ops) ==
    /\ pending > 0
    /\ pending' = pending - 1
    /\ Begin(ops)
    /\ UNCHANGED <<store, cache, sessions, minted, sem, waiters, auth, deleted, broken>>

\* `async with semaphore`, entry: Semaphore.acquire.
Acquire ==
    /\ running.pc = "gate"
    /\ LET g == GateOf(running.op) IN
       IF ~locked(g)
       THEN /\ sem' = [sem EXCEPT ![g] = @ - 1]
            /\ running' = [running EXCEPT !.pc = "body"]
            /\ waiters' = waiters
       ELSE /\ waiters' = [waiters EXCEPT ![g] = Append(@, running)]
            /\ running' = Idle
            /\ sem' = sem
    /\ UNCHANGED <<store, cache, sessions, minted, ready, pending, auth, deleted, broken>>

\* An exit that releases twice.
aexit_twice(value, status) == value + 2

\* An exit that releases on return only, not on exception.
aexit_leak(value, status) == IF status >= 400 THEN value ELSE value + 1

\* `async with semaphore`, exit (__aexit__ runs on return and on exception):
\* the counter after Semaphore.release's increment.
aexit(value, status) == value + 1

\* The handler leaves the gate, by return or by exception.  release wakes the
\* first waiter, which takes the permit over (_wake_up_next).
Release ==
    /\ running.pc = "exit"
    /\ LET g == GateOf(running.op)
           v == aexit(sem[g], running.resp.status)
       IN IF waiters[g] # <<>>
          THEN /\ ready' = Append(ready, Head(waiters[g]))
               /\ waiters' = [waiters EXCEPT ![g] = Tail(@)]
               /\ sem' = [sem EXCEPT ![g] = v - 1]
          ELSE /\ sem' = [sem EXCEPT ![g] = v]
               /\ UNCHANGED <<waiters, ready>>
    /\ running' = [running EXCEPT !.pc = "done"]
    /\ UNCHANGED <<store, cache, sessions, minted, pending, auth, deleted, broken>>

\* The response is sent and the loop is free again.
Return ==
    /\ running.pc = "done"
    /\ running' = Idle
    /\ UNCHANGED <<store, cache, sessions, minted, sem, waiters, ready, pending, auth, deleted, broken>>

\* The handler's body ends with response `resp` to request `req`.
Leave(req, resp) == running' = [running EXCEPT !.pc = "exit", !.req = req, !.resp = resp]

InBody(op) == running.pc = "body" /\ running.op = op

\* ------------------------------------------------------------ create
\* A create that invalidates the aggregates and leaves the per-id key alone.
create_protocol_aggregates_only(c, item) == _invalidate_all_cache(c)

\* POST /: session.add, commit, refresh; then the cache protocol.  `item` is the
\* row as the store holds it after the commit; its id is the one the store
\* assigned or the one the client sent.  An id the table already holds is an
\* IntegrityError at commit: the exception leaves the handler (500).
create_protocol(c, item) ==
    _set_cache(_delete_cache(_invalidate_all_cache(c), KeyItem(item.id)),
               KeyItem(item.id), model_dump(item))

create_item ==
    /\ InBody("create_item")
    /\ \E item \in Entity :
         IF item.id \in DOMAIN store
         THEN /\ Leave(NoReq, Status(500))
              /\ UNCHANGED <<store, cache, deleted>>
         ELSE /\ store' = insert(store, item)
              /\ cache' = create_protocol(cache, item)
              /\ deleted' = deleted \ {item.id}
              /\ Leave(NoReq, [Status(201) EXCEPT !.items = <<item>>])
    /\ UNCHANGED <<sessions, minted, sem, waiters, ready, pending, auth, broken>>

\* session.add_all + commit
RECURSIVE insert_all(_, _)
insert_all(st, items) ==
    IF items = <<>> THEN st ELSE insert_all(insert(st, Head(items)), Tail(items))

\* for item in items: _delete_cache(key); _set_cache(key, item)
RECURSIVE recache_all(_, _)
recache_all(c, items) ==
    IF items = <<>> THEN c
    ELSE recache_all(
           _set_cache(_delete_cache(c, KeyItem(Head(items).id)),
                      KeyItem(Head(items).id), model_dump(Head(items))),
           Tail(items))

\* POST /bulk with a non-empty list.
create_items ==
    /\ InBody("create_items")
    /\ \E items \in Lists(Entity) :
         /\ Len(items) = Len(running.req.shape)
         /\ IF \/ \E k \in DOMAIN items : items[k].id \in DOMAIN store
               \/ \E j, k \in DOMAIN items : j # k /\ items[j].id = items[k].id
            THEN /\ Leave(running.req, Status(500))
                 /\ UNCHANGED <<store, cache, deleted>>
            ELSE /\ store' = insert_all(store, items)
                 /\ cache' = _invalidate_all_cache(recache_all(cache, items))
                 /\ deleted' = deleted \ {items[k].id : k \in DOMAIN items}
                 /\ Leave(running.req, [Status(201) EXCEPT !.items = items])
    /\ UNCHANGED <<sessions, minted, sem, waiters, ready, pending, auth, broken>>

\* ------------------------------------------------------------ read
\* GET /?skip=&limit=
read_items ==
    /\ InBody("read_items")
    /\ \E w \in Windows :
         LET skip == w[1]
             limit == w[2]
             cache_key == KeyPage(skip, limit)
             cached_items == _get_cache(cache, cache_key)
             req == [NoReq EXCEPT !.skip = skip, !.limit = limit]
         IN IF cached_items # <<>>
            THEN /\ Leave(req, [Status(200) EXCEPT !.items = cached_items[1]])
                 /\ cache' = cache
            ELSE LET items == select_page(store, skip, limit) IN
                 /\ cache' = _set_cache(cache, cache_key, dump_list(items))
                 /\ Leave(req, [Status(200) EXCEPT !.items = items])
    /\ UNCHANGED <<store, sessions, minted, sem, waiters, ready, pending, auth, deleted, broken>>

\* GET /count
count_items ==
    /\ InBody("count_items")
    /\ LET cached_count == _get_cache(cache, KeyCount) IN
       IF cached_count # <<>>
       THEN /\ Leave(NoReq, [Status(200) EXCEPT !.count = cached_count[1]])
            /\ cache' = cache
       ELSE LET count == select_count(store) IN
            /\ cache' = _set_cache(cache, KeyCount, count)
            /\ Leave(NoReq, [Status(200) EXCEPT !.count = count])
    /\ UNCHANGED <<store, sessions, minted, sem, waiters, ready, pending, auth, deleted, broken>>

\* GET /{item_id}
read_item ==
    /\ InBody("read_item")
    /\ \E item_id \in Ids :
         LET cached_item == _get_cache(cache, KeyItem(item_id))
             req == [NoReq EXCEPT !.id = item_id]
         IN IF cached_item # <<>>
            THEN /\ Leave(req, [Status(200) EXCEPT !.items = cached_item])
                 /\ cache' = cache
            ELSE IF item_id \notin DOMAIN store
            THEN /\ Leave(req, Status(404))
                 /\ cache' = cache
            ELSE /\ cache' = _set_cache(cache, KeyItem(item_id), model_dump(store[item_id]))
                 /\ Leave(req, [Status(200) EXCEPT !.items = <<store[item_id]>>])
    /\ UNCHANGED <<store, sessions, minted, sem, waiters, ready, pending, auth, deleted, broken>>

\* ------------------------------------------------------------ update
\* for key, value in update_data.items(): setattr(item, key, value)
\* update_data holds every field the client set, `id` included.
setattrs(item, update_data) ==
    [id    |-> IF update_data.id # <<>> THEN update_data.id[1] ELSE item.id,
     email |-> IF update_data.email # <<>> THEN update_data.email[1] ELSE item.email,
     name  |-> IF update_data.name # <<>> THEN update_data.name[1] ELSE item.name]

\* _delete_cache(key of item_id); _invalidate_all_cache(); _set_cache(key of
\* item_id, item): the key is the one of the path, the value the refreshed row.
update_protocol(c, item_id, item) ==
    _set_cache(_invalidate_all_cache(_delete_cache(c, KeyItem(item_id))),
               KeyItem(item_id), model_dump(item))

\* PATCH /{item_id}.  A primary key changed to one the table holds is an
\* IntegrityError at commit (500).
update_item ==
    /\ InBody("update_item")
    /\ \E item_id \in Ids : \E item_data \in Partial :
         LET req == [NoReq EXCEPT !.id = item_id, !.partial = item_data] IN
         IF item_id \notin DOMAIN store
         THEN /\ Leave(req, Status(404))
              /\ UNCHANGED <<store, cache>>
         ELSE LET item == setattrs(store[item_id], item_data) IN
              IF item.id # item_id /\ item.id \in DOMAIN store
              THEN /\ Leave(req, Status(500))
                   /\ UNCHANGED <<store, cache>>
              ELSE /\ store' = insert(remove(store, item_id), item)
                   /\ cache' = update_protocol(cache, item_id, item)
                   /\ Leave(req, [Status(200) EXCEPT !.items = <<item>>])
    /\ UNCHANGED <<sessions, minted, sem, waiters, ready, pending, auth, deleted, broken>>

\* An entry of PATCH /bulk that has an "id".
BulkEntry == {d \in Partial : d.id # <<>>}

\* for key, value in data.items(): if key != "id" and hasattr(item, key): setattr
setattrs_but_id(item, data) == setattrs(item, [data EXCEPT !.id = <<>>])

\* The first loop of update_items: the table after every found entry is applied.
RECURSIVE apply_all(_, _)
apply_all(st, items_data) ==
    IF items_data = <<>> THEN st
    ELSE LET data == Head(items_data)
             i == data.id[1]
         IN IF i \notin DOMAIN st THEN apply_all(st, Tail(items_data))
            ELSE apply_all([st EXCEPT ![i] = setattrs_but_id(@, data)], Tail(items_data))

\* `updated`: the ids of the entries found, in the order of the list.
RECURSIVE found_ids(_, _)
found_ids(st, items_data) ==
    IF items_data = <<>> THEN <<>>
    ELSE LET i == Head(items_data).id[1] IN
         (IF i \in DOMAIN st THEN <<i>> ELSE <<>>) \o found_ids(st, Tail(items_data))

\* PATCH /bulk with a non-empty list whose entries all have an id.
update_items ==
    /\ InBody("update_items")
    /\ \E items_data \in Lists(BulkEntry) :
         LET ids == found_ids(store, items_data)
             st == apply_all(store, items_data)
             updated == [k \in 1..Len(ids) |-> st[ids[k]]]
         IN /\ Len(items_data) = Len(running.req.shape)
            /\ store' = st
            /\ cache' = _invalidate_all_cache(recache_all(cache, updated))
            /\ Leave([running.req EXCEPT
                         !.ids = [k \in DOMAIN items_data |-> items_data[k].id[1]]],
                     [Status(200) EXCEPT !.items = updated])
    /\ UNCHANGED <<sessions, minted, sem, waiters, ready, pending, auth, deleted, broken>>

\* ------------------------------------------------------------ delete
\* _delete_cache(key of item_id); _invalidate_all_cache()
delete_protocol(c, item_id) == _invalidate_all_cache(_delete_cache(c, KeyItem(item_id)))

\* A delete that runs the cache protocol before it looks for the row.
delete_item_invalidating_first ==
    /\ InBody("delete_item")
    /\ \E item_id \in Ids :
         LET req == [NoReq EXCEPT !.id = item_id] IN
         /\ cache' = delete_protocol(cache, item_id)
         /\ IF item_id \notin DOMAIN store
            THEN /\ Leave(req, Status(404))
                 /\ UNCHANGED <<store, deleted>>
            ELSE /\ store' = remove(store, item_id)
                 /\ deleted' = deleted \cup {item_id}
                 /\ Leave(req, Status(204))
    /\ UNCHANGED <<sessions, minted, sem, waiters, ready, pending, auth, broken>>

\* DELETE /{item_id}
delete_item ==
    /\ InBody("delete_item")
    /\ \E item_id \in Ids :
         LET req == [NoReq EXCEPT !.id = item_id] IN
         IF item_id \notin DOMAIN store
         THEN /\ Leave(req, Status(404))
              /\ UNCHANGED <<store, cache, deleted>>
         ELSE /\ store' = remove(store, item_id)
              /\ cache' = delete_protocol(cache, item_id)
              /\ deleted' = deleted \cup {item_id}
              /\ Leave(req, Status(204))
    /\ UNCHANGED <<sessions, minted, sem, waiters, ready, pending, auth, broken>>

\* The loop of delete_items over table st (the rows the session finds), cache c
\* and count n: <<table, cache, deleted_count>> after it.  session.get finds a
\* row marked for deletion until the commit, so st stays the table at entry.
RECURSIVE delete_loop(_, _, _, _)
delete_loop(st, c, n, ids) ==
    IF ids = <<>> THEN <<st, c, n>>
    ELSE LET item_id == Head(ids) IN
         IF item_id \in DOMAIN st
         THEN delete_loop(st, _delete_cache(c, KeyItem(item_id)), n + 1, Tail(ids))
         ELSE delete_loop(st, c, n, Tail(ids))

\* DELETE /bulk with a non-empty list.
delete_items ==
    /\ InBody("delete_items")
    /\ \E ids \in Lists(Ids) :
         LET out == delete_loop(store, cache, 0, ids) IN
         /\ Len(ids) = Len(running.req.shape)
         /\ store' = [i \in DOMAIN store \ {ids[k] : k \in DOMAIN ids} |-> store[i]]
         /\ cache' = _invalidate_all_cache(out[2])
         /\ Leave([running.req EXCEPT !.ids = ids], [Status(204) EXCEPT !.count = out[3]])
    /\ UNCHANGED <<sessions, minted, sem, waiters, ready, pending, auth, deleted, broken>>

\* ------------------------------------------------------------ login
\* session.exec(stmt).first(): the first row whose login fields equal the data.
first_match(st, email) ==
    LET hits == {i \in DOMAIN st : st[i].email = email} IN
    IF hits = {} THEN <<>> ELSE <<st[Ascending(hits)[1]]>>

\* {f: getattr(user, f) for f in login_fields}
login_dict(user) == [email |-> user.email]

\* A generator that returns the same token every time.
token_hex_fixed(n) == 1

\* secrets.token_hex(16): 128 random bits, taken to differ from the n tokens
\* returned before.  Tokens are numbered in the order they are minted.
token_hex(n) == n + 1

\* POST /login
login_route ==
    /\ InBody("login_route")
    /\ \E email \in Emails :
         LET user == first_match(store, email)
             req == [NoReq EXCEPT !.email = <<email>>]
         IN IF user = <<>>
            THEN /\ Leave(req, Status(401))
                 /\ UNCHANGED <<sessions, minted>>
            ELSE LET token == token_hex(minted) IN
                 /\ sessions' = [t \in DOMAIN sessions \cup {token} |->
                                   IF t = token THEN login_dict(user[1]) ELSE sessions[t]]
                 /\ minted' = minted + 1
                 /\ Leave(req, [Status(200) EXCEPT !.tok = token,
                                                   !.user = <<login_dict(user[1])>>])
    /\ UNCHANGED <<store, cache, sem, waiters, ready, pending, auth, deleted, broken>>

\* POST /logout with a header that starts with "Bearer ": the handler has no
\* `async with semaphore`.
logout_route ==
    /\ running.pc = "body" /\ running.op = "logout_route"
    /\ LET token == running.hdr.tok IN
       IF token \in DOMAIN sessions
       THEN /\ sessions' = [t \in DOMAIN sessions \ {token} |-> sessions[t]]
            /\ running' = [running EXCEPT !.pc = "done", !.resp = Status(200)]
       ELSE /\ sessions' = sessions
            /\ running' = [running EXCEPT !.pc = "done", !.resp = Status(401)]
    /\ UNCHANGED <<store, cache, minted, sem, waiters, ready, pending, auth, deleted, broken>>

\* ------------------------------------------------------------ expiry
\* An entry set with expire=ttl reaches its time.
ExpireCache ==
    /\ \E key \in DOMAIN cache : cache' = [k \in DOMAIN cache \ {key} |-> cache[k]]
    /\ UNCHANGED <<store, sessions, minted, sem, waiters, ready, running, pending, auth, deleted, broken>>

\* cache.set, cache.get and cache.delete: the calls the helpers guard.
CacheCalls == {"set", "get", "delete"}

\* The cache store starts or stops raising on some of its calls.
Fault ==
    /\ \E calls \in SUBSET CacheCalls : calls # broken /\ broken' = calls
    /\ UNCHANGED <<store, cache, sessions, minted, sem, waiters, ready, running, pending,
                   auth, deleted>>

\* A session entry reaches login_ttl.
ExpireSession ==
    /\ \E token \in DOMAIN sessions :
         sessions' = [t \in DOMAIN sessions \ {token} |-> sessions[t]]
    /\ UNCHANGED <<store, cache, minted, sem, waiters, ready, running, pending, auth, deleted, broken>>

\* ------------------------------------------------------------ specifications
Writes == {"create_item", "create_items", "update_item", "update_items",
           "delete_item", "delete_items"}

\* The CRUD router without its listing: the per-id keys and the count key.
\* read_items reads and writes only the page keys, which no other handler reads.
Next ==
    \/ Arrive(CrudOps \ {"read_items"})
    \/ Acquire
    \/ create_item
    \/ create_items
    \/ count_items
    \/ read_item
    \/ update_item
    \/ update_items
    \/ delete_item
    \/ delete_items
    \/ Release
    \/ Return
    \/ ExpireCache

Spec == Init /\ [][Next]_vars

\* The listing and every write of the CRUD router.
NextList ==
    \/ Arrive(Writes \cup {"read_items"})
    \/ Acquire
    \/ create_item
    \/ create_items
    \/ read_items
    \/ update_item
    \/ update_items
    \/ delete_item
    \/ delete_items
    \/ Release
    \/ Return
    \/ ExpireCache

SpecList == Init /\ [][NextList]_vars

\* The login router and the handlers of the CRUD router that add, read and
\* remove one row; update_item runs under Spec, SpecList and SpecCrowd.
SessionOps == {"login_route", "logout_route", "create_item", "read_item", "delete_item"}

NextAuth ==
    \/ Arrive(SessionOps)
    \/ Acquire
    \/ login_route
    \/ logout_route
    \/ create_item
    \/ read_item
    \/ delete_item
    \/ Release
    \/ Return
    \/ ExpireSession

SpecAuth == Init /\ [][NextAuth]_vars

\* Requests queued behind the loop: both routers under concurrent callers.
NextGate ==
    \/ Issue
    \/ Start(SessionOps)
    \/ Acquire
    \/ login_route
    \/ logout_route
    \/ create_item
    \/ read_item
    \/ delete_item
    \/ Release
    \/ Return

SpecGate == Init /\ [][NextGate]_vars

\* The single-row handlers with the listing and the count: every kind of key
\* the cache holds.
SingleOps == {"create_item", "read_items", "count_items", "read_item", "update_item",
              "delete_item"}

NextSingle ==
    \/ Arrive(SingleOps)
    \/ Acquire
    \/ create_item
    \/ read_items
    \/ count_items
    \/ read_item
    \/ update_item
    \/ delete_item
    \/ Release
    \/ Return
    \/ ExpireCache

SpecSingle == Init /\ [][NextSingle]_vars

\* The single-row handlers and the count over a cache store whose calls can
\* fail.
FaultOps == {"create_item", "count_items", "read_item", "update_item", "delete_item"}

NextFault ==
    \/ Arrive(FaultOps)
    \/ Acquire
    \/ create_item
    \/ count_items
    \/ read_item
    \/ update_item
    \/ delete_item
    \/ Release
    \/ Return
    \/ Fault

SpecFault == Init /\ [][NextFault]_vars

\* Requests to the single-row handlers of the CRUD router, queued up to
\* MaxPending at a time.  The event loop runs every task that is ready, so
\* the steps of the handlers are weakly fair; clients need not send requests.
CrowdOps == {"create_item", "read_item", "update_item", "delete_item"}

Loop ==
    \/ Start(CrowdOps)
    \/ Acquire
    \/ create_item
    \/ read_item
    \/ update_item
    \/ delete_item
    \/ Release
    \/ Return

NextCrowd == Issue \/ Loop

SpecCrowd == Init /\ [][NextCrowd]_vars /\ WF_vars(Loop)

\* The login router next to the handlers of the CRUD router that change or
\* remove the row a session was opened for.
RecordOps == {"login_route", "logout_route", "read_item", "update_item", "delete_item"}

NextSession ==
    \/ Arrive(RecordOps)
    \/ Acquire
    \/ login_route
    \/ logout_route
    \/ read_item
    \/ update_item
    \/ delete_item
    \/ Release
    \/ Return
    \/ ExpireSession

SpecSession == Init /\ [][NextSession]_vars

\* ------------------------------------------------------------ properties
\* The body of a handler of `ops` has just run and ended with a status below 400.
Succeeded(ops) ==
    /\ running.pc = "body" /\ running.op \in ops
    /\ running'.pc = "exit" /\ running'.resp.status < 400

\* C1: every page read_items answers, from the cache or from the store, is the
\* page the store currently produces for that (skip, limit) window.
C1_ListReflectsStore ==
    (running.op = "read_items" /\ running.pc = "exit")
        => running.resp.items
             = dump_list(select_page(store, running.req.skip, running.req.limit))

\* C2: count_items always answers the number of rows the store holds, a cached
\* count is always that number, and no cached count survives a write.
C2_CountCurrent ==
    /\ [](/\ (running.op = "count_items" /\ running.pc = "exit")
               => running.resp.count = select_count(store)
          /\ KeyCount \in DOMAIN cache => cache[KeyCount] = select_count(store))
    /\ [][Succeeded(Writes) => KeyCount \notin DOMAIN cache']_vars

\* A count answered while the table holds rows and a per-id entry is cached.
C2_Witness ==
    /\ running.op = "count_items" /\ running.pc = "exit"
    /\ running.resp.count = select_count(store)
    /\ running.resp.count > 0
    /\ \E i \in Ids : KeyItem(i) \in DOMAIN cache

\* C3: for each router's gate, the number of permits held is never negative and
\* never more than the capacity.
C3_HeldInRange == \A g \in Gates : 0 <= Held(g) /\ Held(g) <= Capacity

\* A handler holds a permit on its way out while other requests are queued.
C3_Witness ==
    /\ running.pc = "exit"
    /\ Held(GateOf(running.op)) = 1
    /\ pending > 0

\* C4: once delete_item(i) has succeeded and until an entity with id i is
\* created again, the store holds no row i, the cache holds no entry under the
\* per-id key of i, and read_item(i) answers 404.
C4_DeletedStaysGone ==
    \A i \in deleted :
        /\ i \notin DOMAIN store
        /\ KeyItem(i) \notin DOMAIN cache
        /\ (running.op = "read_item" /\ running.pc = "exit" /\ running.req.id = i)
               => running.resp.status = 404

\* The step is an update or a delete of id i: the handler's body runs with i
\* as its path id or in its list.
Touches(i) ==
    /\ running.pc = "body"
    /\ running'.pc = "exit"
    /\ \/ running.op \in {"update_item", "delete_item"} /\ running'.req.id = i
       \/ /\ running.op \in {"update_items", "delete_items"}
          /\ \E k \in DOMAIN running'.req.ids : running'.req.ids[k] = i

\* Table st holds row i and the per-id entry of i in cache c, if there is one,
\* is its snapshot.
FreshIn(st, c, i) ==
    /\ i \in DOMAIN st
    /\ KeyItem(i) \in DOMAIN c => c[KeyItem(i)] = model_dump(st[i])

Fresh(i) == FreshIn(store, cache, i)

\* C5: after create_item or create_items succeeds, each entity e it returns
\* is the row of e.id and what read_item(e.id) returns, and stays so as long
\* as no update or delete of e.id happens.
C5_CreateThenRead ==
    [][/\ Succeeded({"create_item", "create_items"}) =>
             \A k \in DOMAIN running'.resp.items :
                 LET e == running'.resp.items[k] IN
                 FreshIn(store', cache', e.id) /\ store'[e.id] = e
       /\ \A i \in Ids :
             (Fresh(i) /\ ~Touches(i)) => (FreshIn(store', cache', i) /\ store'[i] = store[i])
       /\ \A i \in Ids :
             (InBody("read_item") /\ running'.pc = "exit" /\ running'.req.id = i /\ Fresh(i))
                 => (running'.resp.status = 200 /\ running'.resp.items = <<store[i]>>)
      ]_vars

\* A bulk create of two entities has succeeded and the cache holds both.
C5_Witness ==
    /\ running.op = "create_items"
    /\ running.pc = "exit"
    /\ running.resp.status = 201
    /\ Len(running.resp.items) = 2
    /\ \A k \in DOMAIN running.resp.items :
          LET e == running.resp.items[k] IN
          /\ store[e.id] = e
          /\ KeyItem(e.id) \in DOMAIN cache
          /\ cache[KeyItem(e.id)] = model_dump(e)

\* Fields of the payload win, the others keep the row's values.
Merged(row, partial) ==
    [id    |-> IF partial.id # <<>> THEN partial.id[1] ELSE row.id,
     email |-> IF partial.email # <<>> THEN partial.email[1] ELSE row.email,
     name  |-> IF partial.name # <<>> THEN partial.name[1] ELSE row.name]

\* C6: after update_item(i, partial) succeeds, the row of id i in the store and
\* the per-id cache entry of i both are the pre-update row with the fields of
\* partial replaced, and that entity is what the handler returns.
C6_UpdateMerges ==
    [][Succeeded({"update_item"}) =>
          LET i == running'.req.id
              m == Merged(store[i], running'.req.partial)
          IN /\ i \in DOMAIN store'
             /\ store'[i] = m
             /\ KeyItem(i) \in DOMAIN cache'
             /\ cache'[KeyItem(i)] = model_dump(m)
             /\ running'.resp.items = <<m>>
      ]_vars

\* The tokens logins have returned so far.
Issued == 1..minted

\* The step is the auth dependency of a CRUD handler deciding on the header.
Verifies == running = Idle /\ auth /\ running'.op \in CrudOps /\ running'.pc # "body"

\* The step is the body of logout.
LogsOut == running.op = "logout_route" /\ running.pc = "body" /\ running'.pc = "done"

\* C7: a token a login returned is in the session store, and accepted, until a
\* logout with it or its expiry; from then on it is never in the session store
\* again, every auth-gated operation that presents it answers 401, and so does
\* a logout with it.
C7_TokenLifetime ==
    [][/\ Succeeded({"login_route"}) =>
             /\ running'.resp.tok \notin Issued
             /\ running'.resp.tok \in DOMAIN sessions'
       /\ \A t \in DOMAIN sessions :
             t \notin DOMAIN sessions' =>
                 \/ LogsOut /\ running.hdr.tok = t
                 \/ running' = running
       /\ \A t \in Issued : t \notin DOMAIN sessions => t \notin DOMAIN sessions'
       /\ Verifies =>
             IF running'.hdr.bearer = 1 /\ running'.hdr.tok \in DOMAIN sessions
             THEN running'.pc = "gate"
             ELSE running'.pc = "done" /\ running'.resp.status = 401
       /\ LogsOut =>
             IF running.hdr.tok \in DOMAIN sessions
             THEN running'.resp.status = 200 /\ running.hdr.tok \notin DOMAIN sessions'
             ELSE running'.resp.status = 401 /\ sessions' = sessions
      ]_vars

\* An auth-gated operation has answered 401 to a token that a login returned
\* and that is no longer in the session store.
C7_Witness ==
    /\ auth
    /\ running.op \in CrudOps
    /\ running.pc = "done"
    /\ running.resp.status = 401
    /\ running.hdr.bearer = 1
    /\ running.hdr.tok \in Issued
    /\ running.hdr.tok \notin DOMAIN sessions

\* The handlers that are inside `async with semaphore` of router g: the running
\* one between its acquire and its release, and those release has woken with
\* the permit handed over.
Inside(g) ==
    (IF /\ running.pc \in {"body", "exit"}
        /\ running.op # "logout_route"
        /\ GateOf(running.op) = g
     THEN 1 ELSE 0)
    + Cardinality({k \in DOMAIN ready : GateOf(ready[k].op) = g})

\* C8: the permits held are exactly those of the handlers inside the gate: a
\* handler that leaves, by return or by error, gives its permit back, and when
\* no handler is inside the held count is 0.
C8_NoPermitLeaked == \A g \in Gates : Held(g) = Inside(g)

\* A handler that entered the gate has failed with not-found and is out of it.
C8_Witness ==
    /\ running.pc = "done"
    /\ running.op \in {"read_item", "delete_item"}
    /\ running.resp.status = 404
    /\ Held("crud") = 0

\* C9: a handler that is about to read or change the store, the cache or the
\* session store holds a permit of its router's gate.
C9_PermitWhileTouching == running.pc = "body" => Held(GateOf(running.op)) >= 1

\* C10: when capacity+1 requests to the CRUD router are queued together, a
\* state follows in which capacity handlers are inside the gate and one is
\* suspended in acquire.
C10_CapacityInsideOneWaiting ==
    (pending = Capacity + 1 /\ ~auth)
        ~> (Held("crud") = Capacity /\ Len(waiters["crud"]) = 1)

\* The list of the bulk request is empty, or, for update_items, has an entry
\* with no 'id'.
Malformed(r) ==
    /\ r.op \in BulkOps
    /\ \/ Len(r.req.shape) = 0
       \/ r.op = "update_items" /\ \E k \in DOMAIN r.req.shape : r.req.shape[k] = 0

\* C11: a bulk handler given an empty list, or update_items given an entry
\* with no 'id', answers 400 without reaching the gate, and no step of that
\* handler changes the store, the cache or the semaphore.
C11_BadBulkRejected ==
    [][/\ (running = Idle /\ running'.pc # "body" /\ Malformed(running')
            /\ running'.resp.status # 401)
          => (running'.pc = "done" /\ running'.resp.status = 400)
       /\ (running' # running /\ (running.resp.status = 400 \/ running'.resp.status = 400))
          => UNCHANGED <<store, cache, sem, waiters, ready>>
      ]_vars

\* update_items has answered 400 to a list of two entries of which one has no
\* 'id', with rows in the table and no permit out.
C11_Witness ==
    /\ running.op = "update_items"
    /\ running.pc = "done"
    /\ running.resp.status = 400
    /\ Len(running.req.shape) = 2
    /\ running.req.shape[1] = 1
    /\ store # <<>>
    /\ Held("crud") = 0

\* C12: read_item, update_item and delete_item on an id that the store does
\* not hold and the cache has no per-id entry for answer 404, and no step of
\* a handler that answers 404 changes the store or the cache.
C12_NotFoundChangesNothing ==
    [][/\ \A i \in Ids :
             (/\ running.pc = "body"
              /\ running.op \in {"read_item", "update_item", "delete_item"}
              /\ running'.pc = "exit"
              /\ running'.req.id = i
              /\ i \notin DOMAIN store
              /\ KeyItem(i) \notin DOMAIN cache)
             => (running'.resp.status = 404 /\ UNCHANGED <<store, cache>>)
       /\ (running' # running /\ (running.resp.status = 404 \/ running'.resp.status = 404))
             => UNCHANGED <<store, cache>>
      ]_vars

\* delete_item has answered 404 while the cache holds the count, a page and
\* the per-id entry of another row.
C12_Witness ==
    /\ running.op = "delete_item"
    /\ running.pc = "exit"
    /\ running.resp.status = 404
    /\ KeyCount \in DOMAIN cache
    /\ \E w \in Windows : KeyPage(w[1], w[2]) \in DOMAIN cache
    /\ \E i \in Ids : KeyItem(i) \in DOMAIN cache

\* The requested ids that the table holds.
Present(ids) == {ids[k] : k \in DOMAIN ids} \cap DOMAIN store

\* C13: delete_items with a non-empty list answers 204 whatever ids are
\* absent, removes the rows of the requested ids that were present and their
\* per-id entries, leaves every other row as it was, invalidates the count key
\* and reports as deleted count the number of requested ids that were present.
C13_BulkDelete ==
    [][(InBody("delete_items") /\ running'.pc = "exit") =>
          LET ids == running'.req.ids IN
          /\ running'.resp.status = 204
          /\ DOMAIN store' = DOMAIN store \ Present(ids)
          /\ \A i \in DOMAIN store' : store'[i] = store[i]
          /\ \A i \in Present(ids) : KeyItem(i) \notin DOMAIN cache'
          /\ KeyCount \notin DOMAIN cache'
          /\ running'.resp.count = Cardinality(Present(ids))
      ]_vars

\* The same without the deleted count.
C13_BulkDeleteEffect ==
    [][(InBody("delete_items") /\ running'.pc = "exit") =>
          LET ids == running'.req.ids IN
          /\ running'.resp.status = 204
          /\ DOMAIN store' = DOMAIN store \ Present(ids)
          /\ \A i \in DOMAIN store' : store'[i] = store[i]
          /\ \A i \in Present(ids) : KeyItem(i) \notin DOMAIN cache'
          /\ KeyCount \notin DOMAIN cache'
      ]_vars

\* The status and the table a handler's body leaves when every cache call
\* succeeds, for the request and response the step records: a read leaves the
\* table alone and answers 200 on a hit or a present row; a write answers and
\* changes the table by the table alone.
AsWithWorkingCache(coherent_only) ==
    LET op == running.op
        i  == running'.req.id
        st == running'.resp.status
    IN /\ op = "read_item" =>
             /\ store' = store
             /\ (coherent_only => (KeyItem(i) \in DOMAIN cache => i \in DOMAIN store))
                   => st = (IF KeyItem(i) \in DOMAIN cache \/ i \in DOMAIN store
                            THEN 200 ELSE 404)
       /\ op = "count_items" => (store' = store /\ st = 200)
       /\ op = "delete_item" =>
             IF i \in DOMAIN store
             THEN st = 204 /\ store' = [j \in DOMAIN store \ {i} |-> store[j]]
             ELSE st = 404 /\ store' = store
       /\ op = "update_item" =>
             IF i \notin DOMAIN store THEN st = 404 /\ store' = store
             ELSE LET m == Merged(store[i], running'.req.partial) IN
                  IF m.id # i /\ m.id \in DOMAIN store THEN st = 500 /\ store' = store
                  ELSE /\ st = 200
                       /\ DOMAIN store' = (DOMAIN store \ {i}) \cup {m.id}
                       /\ store'[m.id] = m
       /\ op = "create_item" =>
             \/ st = 500 /\ store' = store
             \/ /\ st = 201
                /\ LET e == running'.resp.items[1] IN
                   /\ e.id \notin DOMAIN store
                   /\ DOMAIN store' = DOMAIN store \cup {e.id}
                   /\ store'[e.id] = e

\* A set that raises and a delete that raises change nothing in the cache.
FailedCallsAreNoOps ==
    /\ "set" \in broken =>
          \A k \in DOMAIN cache' : k \in DOMAIN cache /\ cache'[k] = cache[k]
    /\ "delete" \in broken => \A k \in DOMAIN cache : k \in DOMAIN cache'

\* C14: whatever cache calls raise, a handler ends with the status and the
\* table it ends with when they succeed, a get that raises counts as a miss,
\* and a set or delete that raises changes nothing.
C14_CacheFailureAbsorbed ==
    [][(running.pc = "body" /\ running'.pc = "exit")
          => (AsWithWorkingCache(FALSE) /\ FailedCallsAreNoOps)]_vars

\* The same for reads of ids whose per-id entry, if any, has a row behind it.
C14_AbsorbedWhenCoherent ==
    [][(running.pc = "body" /\ running'.pc = "exit")
          => (AsWithWorkingCache(TRUE) /\ FailedCallsAreNoOps)]_vars

\* A write handler is inside the gate.
WriteInFlight ==
    \/ running.op \in Writes /\ running.pc \in {"body", "exit"}
    \/ \E k \in DOMAIN ready : ready[k].op \in Writes

\* C15: whenever no write is in flight, every per-id cache entry is the
\* snapshot of the row the store holds under that id, and ids without a row
\* have no per-id entry.
C15_PerIdCoherent ==
    ~WriteInFlight =>
        \A i \in Ids :
            KeyItem(i) \in DOMAIN cache =>
                (i \in DOMAIN store /\ cache[KeyItem(i)] = model_dump(store[i]))

\* The three cached reads, the key each one uses and the value each one answers.
Reads == {"read_item", "read_items", "count_items"}

ReadKey(r) ==
    CASE r.op = "read_item"   -> KeyItem(r.req.id)
      [] r.op = "read_items"  -> KeyPage(r.req.skip, r.req.limit)
      [] r.op = "count_items" -> KeyCount

Answer(r) ==
    CASE r.op = "read_item"   -> r.resp.items[1]
      [] r.op = "read_items"  -> r.resp.items
      [] r.op = "count_items" -> r.resp.count

FromStore(r) ==
    CASE r.op = "read_item"   -> model_dump(store[r.req.id])
      [] r.op = "read_items"  -> dump_list(select_page(store, r.req.skip, r.req.limit))
      [] r.op = "count_items" -> select_count(store)

\* C16: the three reads are read-through. With the key present the answer is
\* the cached value, whatever the store holds, and the cache stays as it is;
\* with the key absent the answer is what the store holds, and it is stored
\* under the key and nowhere else (read_item of an absent id answers 404 and
\* stores nothing). After a successful read the key holds the value answered,
\* so the same read repeated at once is a hit with that value. No read changes
\* the store.
C16_ReadThrough ==
    [][(running.pc = "body" /\ running.op \in Reads /\ running'.pc = "exit") =>
        LET r == running'
            key == ReadKey(r)
        IN /\ store' = store
           /\ IF key \in DOMAIN cache
              THEN /\ r.resp.status = 200
                   /\ Answer(r) = cache[key]
                   /\ cache' = cache
              ELSE IF r.op = "read_item" /\ r.req.id \notin DOMAIN store
              THEN r.resp.status = 404 /\ cache' = cache
              ELSE /\ r.resp.status = 200
                   /\ Answer(r) = FromStore(r)
                   /\ DOMAIN cache' = DOMAIN cache \cup {key}
                   /\ \A k \in DOMAIN cache : cache'[k] = cache[k]
           /\ r.resp.status = 200 =>
                (key \in DOMAIN cache' /\ cache'[key] = Answer(r))
      ]_vars

\* read_items has answered the empty page it found cached while the store has
\* a row in that window, and count_items could answer a cached 0.
C16_Witness ==
    /\ running.op = "read_items" /\ running.pc = "exit"
    /\ running.resp.items = <<>>
    /\ select_page(store, running.req.skip, running.req.limit) # <<>>
    /\ KeyPage(running.req.skip, running.req.limit) \in DOMAIN cache

\* C18: the entry login stores under the token it returns is the login-field
\* snapshot it returns; no step changes the entry of a token that stays in the
\* session store, whether the row is updated or deleted, another login
\* succeeds or another token is logged out; and verification of a live token
\* yields its entry.
C18_SessionNeverMutated ==
    [][/\ Succeeded({"login_route"}) =>
             sessions'[running'.resp.tok] = running'.resp.user[1]
       /\ \A t \in DOMAIN sessions \cap DOMAIN sessions' : sessions'[t] = sessions[t]
       /\ (Verifies /\ running'.hdr.bearer = 1 /\ running'.hdr.tok \in DOMAIN sessions)
             => /\ verify_token(running'.hdr, sessions) = <<sessions[running'.hdr.tok]>>
                /\ running'.pc # "done"
      ]_vars

\* A token is accepted after a second login and with no row left that has the
\* login fields of its entry.
C18_Witness ==
    /\ auth
    /\ running.op \in CrudOps
    /\ running.pc = "gate"
    /\ running.hdr.tok \in DOMAIN sessions
    /\ minted = 2
    /\ \A i \in DOMAIN store : store[i].email # sessions[running.hdr.tok].email

\* C19: every per-id cache entry under the key of id i is a snapshot with id
\* i; update_item(i, payload) leaves the row under id i with id i, whatever
\* the payload carries; update_items moves no row to another id.
C19_IdentifierStable ==
    /\ [](\A i \in Ids : KeyItem(i) \in DOMAIN cache => cache[KeyItem(i)].id = i)
    /\ [][/\ Succeeded({"update_item"}) =>
               (LET item_id == running'.req.id IN
                /\ DOMAIN store' = DOMAIN store
                /\ store'[item_id].id = item_id
                /\ running'.resp.items[1].id = item_id)
          /\ Succeeded({"update_items"}) =>
               /\ DOMAIN store' = DOMAIN store
               /\ \A i \in DOMAIN store' : store'[i].id = i
          ]_vars

\* The part of it about update_items.
C19_BulkIgnoresId ==
    [][Succeeded({"update_items"}) =>
          /\ DOMAIN store' = DOMAIN store
          /\ \A i \in DOMAIN store' : store'[i].id = i
          /\ \A k \in DOMAIN running'.resp.items :
                 LET e == running'.resp.items[k] IN
                 e.id \in DOMAIN store /\ cache'[KeyItem(e.id)] = model_dump(store'[e.id])
      ]_vars

\* C20: with auth set, a CRUD handler whose Authorization header lacks the
\* 'Bearer ' prefix, or carries a token that is not in the session store,
\* answers 401 without reaching the gate, and no step of that request changes
\* the store, the cache, the session store or the semaphore.
C20_UnauthorizedChangesNothing ==
    [][/\ (Verifies /\ (running'.hdr.bearer = 0 \/ running'.hdr.tok \notin DOMAIN sessions))
            => (running'.pc = "done" /\ running'.resp.status = 401)
       /\ (/\ running' # running
           /\ \/ running.op \in CrudOps /\ running.resp.status = 401
              \/ running'.op \in CrudOps /\ running'.resp.status = 401)
            => UNCHANGED <<store, cache, sessions, sem, waiters, ready>>
      ]_vars

\* A CRUD handler has answered 401 to a live token sent without the prefix,
\* with rows in the table and no permit out.
C20_Witness ==
    /\ auth
    /\ running.op \in CrudOps
    /\ running.pc = "done"
    /\ running.resp.status = 401
    /\ running.hdr.bearer = 0
    /\ running.hdr.tok \in DOMAIN sessions
    /\ store # <<>>
    /\ Held("crud") = 0

=============================================================================
